---- MODULE Spec2Model ----
(***************************************************************************)
(* Model of the package release pipeline of bin/plugin/commands/packages.js *)
(* (prepareForPackageRelease and the stages it awaits in turn).             *)
(*                                                                          *)
(* Every external call (git.*, execa command, fs.*, the prompts) is a step  *)
(* that either resolves or rejects; a rejection leaves the awaiting         *)
(* function as an exception.  The side effects the run issues are recorded  *)
(* in ops (in issue order); commitLog holds the commits created.            *)
(***************************************************************************)
EXTENDS Integers, Sequences, FiniteSets, TLC

\* ------------------------------------------------------------------ bounds
NumPackages == 2
MaxCommits == 3
MaxHash == 3

Packages == 1..NumPackages

\* ------------------------------------------------------------ value domains
ReleaseTypes == {"latest", "bugfix", "next"}
SemVers == {"major", "minor", "patch"}
NoBump == "null"
NoHash == 0
Undefined == "undefined"
NoVersion == [num |-> <<0, 0, 0>>, pre |-> "null"]
Version(a, b, c, pre) == [num |-> <<a, b, c>>, pre |-> pre]

\* semver.inc( version, release ): a version carrying a pre-release tag is
\* first completed to its plain X.Y.Z when that already is the requested
\* increment; the pre* releases always increment and start the pre-release
\* series of the identifier; an invalid release yields null.
semverInc(version, release) ==
    LET n == version.num
        plain == version.pre = ""
    IN CASE release = "major" ->
              IF n[2] # 0 \/ n[3] # 0 \/ plain
              THEN Version(n[1] + 1, 0, 0, "") ELSE Version(n[1], 0, 0, "")
         [] release = "minor" ->
              IF n[3] # 0 \/ plain
              THEN Version(n[1], n[2] + 1, 0, "") ELSE Version(n[1], n[2], 0, "")
         [] release = "patch" ->
              IF plain
              THEN Version(n[1], n[2], n[3] + 1, "") ELSE Version(n[1], n[2], n[3], "")
         [] release = "premajor" -> Version(n[1] + 1, 0, 0, "next.<hash>.0")
         [] release = "preminor" -> Version(n[1], n[2] + 1, 0, "next.<hash>.0")
         [] release = "prepatch" -> Version(n[1], n[2], n[3] + 1, "next.<hash>.0")
         [] OTHER -> NoVersion

\* -------------------------------------------------------- changelog contents
\* A changelog is a sequence of lines; a line is a record.  kind "U" is the
\* "## Unreleased" heading, "V" a released version heading, "B" a
\* "### Breaking Changes" section, "F" "### New Features", "X" any other
\* section ("### Bug Fixes"), "E" a list entry.
Ln(k) == [kind |-> k, ver |-> NoVersion, suffix |-> "", date |-> ""]
Heading(v, s, d) == [kind |-> "V", ver |-> v, suffix |-> s, date |-> d]

ChangelogNoUnreleased == <<Ln("V"), Ln("X"), Ln("E")>>
ChangelogEmpty == <<Ln("U"), Ln("V"), Ln("B"), Ln("E")>>
ChangelogBugFix == <<Ln("U"), Ln("X"), Ln("E"), Ln("V")>>
ChangelogBreaking == <<Ln("U"), Ln("X"), Ln("E"), Ln("B"), Ln("E"), Ln("V")>>
Changelogs == {ChangelogNoUnreleased, ChangelogEmpty, ChangelogBugFix, ChangelogBreaking}

Versions == {Version(4, 2, 0, "")}

\* Index of the first "## Unreleased" line, 0 when there is none.
FirstUnreleased(lines) ==
    IF \E i \in 1..Len(lines) : lines[i].kind = "U"
    THEN CHOOSE i \in 1..Len(lines) :
            /\ lines[i].kind = "U"
            /\ \A j \in 1..(i - 1) : lines[j].kind # "U"
    ELSE 0

\* The lines of the Unreleased section: after the marker, up to the next
\* "## " heading.
UnreleasedSection(lines) ==
    LET u == FirstUnreleased(lines)
        stops == {i \in (u + 1)..Len(lines) : lines[i].kind \in {"V", "U"}}
        last == IF stops = {} THEN Len(lines)
                ELSE (CHOOSE i \in stops : \A j \in stops : i <= j) - 1
    IN IF u = 0 THEN <<>> ELSE SubSeq(lines, u + 1, last)

\* calculateVersionBumpFromChangelog( lines, minimumVersionBump ): the raw
\* level of the Unreleased part, the highest among its sections, before any
\* policy on the minimum is applied; null when the part has no section.
calculateVersionBumpFromChangelog(lines, minimumVersionBump) ==
    LET sec == UnreleasedSection(lines)
        kinds == {sec[i].kind : i \in 1..Len(sec)}
        raw == IF "B" \in kinds THEN "major"
               ELSE IF "F" \in kinds THEN "minor"
               ELSE IF "X" \in kinds THEN "patch"
               ELSE NoBump
    IN raw

\* content.replace( '## Unreleased', '## Unreleased\n\n## <version> (<date>)' ):
\* the first marker is kept and the new heading follows it; without a marker
\* the content is unchanged.
ReplaceUnreleased(lines, heading) ==
    LET u == FirstUnreleased(lines)
    IN IF u = 0 THEN lines
       ELSE SubSeq(lines, 1, u) \o <<heading>> \o SubSeq(lines, u + 1, Len(lines))

\* ------------------------------------------------------------------- state
VARIABLES
    config,             \* WPPackagesConfig, passed by reference to every stage
    pc,                 \* position of prepareForPackageRelease
    stages,             \* stage call/return events, in order
    temporaryFolders,   \* local of prepareForPackageRelease
    tmpDirs,            \* temporary clone directories existing on disk
    releaseBranch,      \* local of prepareForPackageRelease (line 427)
    disk,               \* per package: private, production, version, changelog
    dirty,              \* files changed in the working tree and not committed
    publicPackages,     \* changelogFilesPublicPackages
    task,               \* position of each package's Promise.all task
    processedPackages,  \* the records produced so far
    packagesToUpdate,   \* processedPackages filtered on nextVersion
    commitHashChangelogUpdates,
    commitHashNpmPublish,
    commits,            \* argument of backportCommitsToTrunk
    cursor,             \* index of the for..of loop of backportCommitsToTrunk
    head,               \* hash at the head of the checked out branch
    commitLog,          \* commits created by the run
    ops                 \* side effects issued, in order

vars == <<config, pc, stages, temporaryFolders, tmpDirs, releaseBranch, disk,
          dirty, publicPackages, task, processedPackages, packagesToUpdate,
          commitHashChangelogUpdates, commitHashNpmPublish, commits, cursor,
          head, commitLog, ops>>

\* The stage a position of prepareForPackageRelease belongs to.
StageOf(label) ==
    CASE label \in {"sync_checkoutTrunk", "sync_checkoutRelease", "sync_fetch", "sync_gate",
                    "sync_replace", "sync_commit"} -> "sync"
      [] label \in {"update_glob", "update_process", "update_rewrite", "update_gate",
                    "update_commit"} -> "update"
      [] label \in {"push_gate", "push_push"} -> "push"
      [] label \in {"publish_ci", "publish_preid", "publish_version", "publish_publish",
                    "publish_latest", "publish_head"} -> "publish"
      [] label \in {"backport", "backport_reset", "backport_pick", "backport_push"} -> "backport"
      [] OTHER -> label

\* A call issued by the run: what was called, with which argument, the commit
\* hash involved, whether it resolved, and the stage that issued it.
Op(name, arg, hash, ok) ==
    [op |-> name, arg |-> arg, hash |-> hash, ok |-> ok, stage |-> StageOf(pc)]

NoRecord == [nextVersion |-> NoVersion, version |-> NoVersion]

\* The files of one package: the manifest's private flag and version, whether
\* the top-level manifest lists the package among its dependencies, and the
\* changelog.  A private package is drawn with the breaking changelog only.
PackageStates ==
    {s \in [private : BOOLEAN, production : BOOLEAN, version : Versions,
            changelog : Changelogs] :
        s.private => s.changelog = ChangelogBreaking}

\* The package files a checkout or a content replacement can bring in.
Trees == [Packages -> PackageStates]

\* Before the release branch is checked out the package files are not there.
NoTree == [p \in Packages |->
            [private |-> TRUE, production |-> FALSE, version |-> NoVersion,
             changelog |-> <<>>]]

\* The three entry points build the config: interactive = !ci,
\* minimumVersionBump = semver, releaseType fixed per entry point.
InitConfig(ci, semver, releaseType) ==
    [interactive |-> ~ci, minimumVersionBump |-> semver, releaseType |-> releaseType,
     gitWorkingDirectoryPath |-> Undefined, releaseBranch |-> Undefined]

InitRest ==
    /\ stages = <<>>
    /\ temporaryFolders = <<>>
    /\ tmpDirs = {}
    /\ releaseBranch = Undefined
    /\ dirty = {}
    /\ publicPackages = {}
    /\ task = [p \in Packages |-> "idle"]
    /\ processedPackages = [p \in Packages |-> NoRecord]
    /\ packagesToUpdate = {}
    /\ commitHashChangelogUpdates = NoHash
    /\ commitHashNpmPublish = NoHash
    /\ cursor = 0
    /\ head = 1
    /\ commitLog = <<>>
    /\ ops = <<>>

Init ==
    /\ \E ci \in BOOLEAN, semver \in SemVers, releaseType \in ReleaseTypes :
          config = InitConfig(ci, semver, releaseType)
    /\ pc = "start"
    /\ disk = NoTree
    /\ commits = <<>>
    /\ InitRest

\* ----------------------------------------------------------------- helpers
Call(stage) == <<stage, "call">>
Return(stage) == <<stage, "return">>

pkgVars == <<disk, dirty, publicPackages, task, processedPackages, packagesToUpdate>>
hashVars == <<commitHashChangelogUpdates, commitHashNpmPublish, commits, cursor>>
gitVars == <<head, commitLog>>
cloneVars == <<temporaryFolders, tmpDirs>>

Issue(o) == ops' = Append(ops, o)

\* The hash git.commit returns for the commit it creates.
NewHash == Len(commitLog) + 2

\* const wordpressReleaseBranch = releaseType === 'next' ? 'wp/next' : 'wp/trunk'
wordpressReleaseBranch(releaseType) == IF releaseType = "next" THEN "wp/next" ELSE "wp/trunk"

\* Mutant: every release type replaces the content.
SyncsContentAlways(releaseType) == TRUE

\* [ 'latest', 'next' ].includes( releaseType )
SyncsContent(releaseType) == releaseType \in {"latest", "next"}

\* Mutant: a rejected publish stage is swallowed and the run goes on.
RejectedSwallowed(stage) == IF stage = "publish" THEN "backport" ELSE "aborted"

\* prepareForPackageRelease awaits every stage without try/catch: a rejected
\* stage ends the function with that exception.
Rejected(stage) == "aborted"

\* Mutant: the publish stage is called before the push stage.
NextStagePublishFirst(stage) ==
    CASE stage = "clone" -> "sync"
      [] stage = "sync" -> "update"
      [] stage = "update" -> "publish"
      [] stage = "publish" -> "push"
      [] stage = "push" -> "backport"
      [] stage = "backport" -> "cleanup"
      [] OTHER -> "done"

\* The stage prepareForPackageRelease calls once `stage` has returned.
NextStage(stage) ==
    CASE stage = "clone" -> "sync"
      [] stage = "sync" -> "update"
      [] stage = "update" -> "push"
      [] stage = "push" -> "publish"
      [] stage = "publish" -> "backport"
      [] stage = "backport" -> "cleanup"
      [] OTHER -> "done"

\* Mutant: the push step asks no confirmation.
EntryPushUngated(stage, cfg) ==
    CASE stage = "clone" -> "clone"
      [] stage = "sync" -> "sync_checkoutTrunk"
      [] stage = "update" -> "update_glob"
      [] stage = "push" -> "push_push"
      [] stage = "publish" -> "publish_ci"
      [] stage = "backport" -> "backport"
      [] stage = "cleanup" -> "cleanup"
      [] OTHER -> "done"

\* The first step of a stage.
Entry(stage, cfg) ==
    CASE stage = "clone" -> "clone"
      [] stage = "sync" -> "sync_checkoutTrunk"
      [] stage = "update" -> "update_glob"
      [] stage = "push" -> IF cfg.interactive THEN "push_gate" ELSE "push_push"
      [] stage = "publish" -> "publish_ci"
      [] stage = "backport" -> "backport"
      [] stage = "cleanup" -> "cleanup"
      [] OTHER -> "done"

\* `stage` returns and the continuation calls the next one.
Advance(stage) ==
    /\ stages' = stages \o <<Return(stage)>> \o
                 (IF NextStage(stage) = "done" THEN <<>> ELSE <<Call(NextStage(stage))>>)
    /\ pc' = Entry(NextStage(stage), config)

\* askForConfirmation: a declined prompt raises the abort.
Accepted(answer) == answer

\* runStep( name, abortMessage, handler ): on a rejected handler the abort
\* message is printed, temporary filesystem resources are cleaned and the run
\* aborts.
runStepCleanup(dirs) == {}

RunStepRejected(stage) ==
    /\ pc' = Rejected(stage)
    /\ tmpDirs' = runStepCleanup(tmpDirs)
    /\ UNCHANGED <<stages, temporaryFolders>>

\* ---------------------------------------------- prepareForPackageRelease
\* Lines 412-416: interactive run, "Ready to go?".
AskReadyToGo ==
    /\ pc = "start"
    /\ config.interactive
    /\ \E answer \in BOOLEAN :
          /\ Issue(Op("askForConfirmation", "Ready to go?", NoHash, answer))
          /\ IF Accepted(answer)
             THEN /\ pc' = Entry("clone", config)
                  /\ stages' = Append(stages, Call("clone"))
             ELSE /\ pc' = Rejected("start")
                  /\ UNCHANGED stages
    /\ UNCHANGED <<config, cloneVars, releaseBranch, pkgVars, hashVars, gitVars>>

\* Lines 418-421: runGitRepositoryCloneStep and temporaryFolders.push.
CloneStep ==
    /\ pc = "clone"
    /\ \E ok \in BOOLEAN :
          /\ Issue(Op("git.clone", "tmp", NoHash, ok))
          /\ IF ok
             THEN /\ config' = [config EXCEPT !.gitWorkingDirectoryPath = "tmp"]
                  /\ tmpDirs' = tmpDirs \cup {"tmp"}
                  /\ temporaryFolders' = Append(temporaryFolders, "tmp")
                  /\ Advance("clone")
             ELSE /\ RunStepRejected("clone")
                  /\ UNCHANGED config
    /\ UNCHANGED <<releaseBranch, pkgVars, hashVars, gitVars>>

\* Mutant: the CI run also lists its working directory for cleanup.
StartCIListsCwd ==
    /\ pc = "start"
    /\ ~config.interactive
    /\ config' = [config EXCEPT !.gitWorkingDirectoryPath = "cwd"]
    /\ temporaryFolders' = Append(temporaryFolders, "cwd")
    /\ stages' = Append(stages, Call("sync"))
    /\ pc' = Entry("sync", config)
    /\ UNCHANGED <<tmpDirs, releaseBranch, pkgVars, hashVars, gitVars, ops>>

\* Lines 422-427: CI run, the working directory is process.cwd().
StartCI ==
    /\ pc = "start"
    /\ ~config.interactive
    /\ config' = [config EXCEPT !.gitWorkingDirectoryPath = "cwd"]
    /\ stages' = Append(stages, Call("sync"))
    /\ pc' = Entry("sync", config)
    /\ UNCHANGED <<cloneVars, releaseBranch, pkgVars, hashVars, gitVars, ops>>

\* ------------------------------------- runWordPressReleaseBranchSyncStep
\* A git call of the sync handler: rejected inside runStep.
SyncGit(at, op, arg, next) ==
    /\ pc = at
    /\ \E ok \in BOOLEAN :
          /\ Issue(Op(op, arg, NoHash, ok))
          /\ IF ok
             THEN /\ pc' = next
                  /\ UNCHANGED <<stages, cloneVars>>
             ELSE RunStepRejected("sync")
    /\ UNCHANGED <<config, releaseBranch, pkgVars, hashVars, gitVars>>

\* The handler is over: the stage returns { releaseBranch } (lines 118-120),
\* which line 427 destructures into the local releaseBranch.
SyncReturn ==
    /\ releaseBranch' = wordpressReleaseBranch(config.releaseType)
    /\ Advance("sync")
    /\ UNCHANGED <<config, cloneVars>>

SyncCheckoutTrunk ==
    SyncGit("sync_checkoutTrunk", "git.checkoutRemoteBranch", "trunk", "sync_checkoutRelease")

\* Lines 73-82.  The checkout brings in the package files of the release
\* branch; they are drawn here when no content replacement follows.
SyncCheckoutRelease ==
    /\ pc = "sync_checkoutRelease"
    /\ \E ok \in BOOLEAN :
          /\ Issue(Op("git.checkoutRemoteBranch", wordpressReleaseBranch(config.releaseType),
                      NoHash, ok))
          /\ IF ok
             THEN /\ pc' = "sync_fetch"
                  /\ IF SyncsContent(config.releaseType)
                     THEN UNCHANGED disk
                     ELSE disk' \in Trees
                  /\ UNCHANGED <<stages, cloneVars>>
             ELSE RunStepRejected("sync") /\ UNCHANGED disk
    /\ UNCHANGED <<config, releaseBranch, dirty, publicPackages, task, processedPackages,
                   packagesToUpdate, hashVars, gitVars>>

\* Lines 83-97: fetch, then the branch on the release type.
SyncFetch ==
    /\ pc = "sync_fetch"
    /\ \E ok \in BOOLEAN :
          /\ Issue(Op("git.fetch", "--depth=100", NoHash, ok))
          /\ IF ~ok
             THEN RunStepRejected("sync") /\ UNCHANGED <<config, releaseBranch>>
             ELSE IF SyncsContent(config.releaseType)
             THEN /\ pc' = IF config.interactive THEN "sync_gate" ELSE "sync_replace"
                  /\ UNCHANGED <<config, releaseBranch, stages, cloneVars>>
             ELSE SyncReturn
    /\ UNCHANGED <<pkgVars, hashVars, gitVars>>

\* Lines 91-97.
SyncConfirm ==
    /\ pc = "sync_gate"
    /\ \E answer \in BOOLEAN :
          /\ Issue(Op("askForConfirmation", "sync", NoHash, answer))
          /\ IF Accepted(answer)
             THEN /\ pc' = "sync_replace"
                  /\ UNCHANGED <<stages, cloneVars>>
             ELSE RunStepRejected("sync")
    /\ UNCHANGED <<config, releaseBranch, pkgVars, hashVars, gitVars>>

\* Lines 99-102.
SyncReplaceContent ==
    /\ pc = "sync_replace"
    /\ \E ok \in BOOLEAN :
          /\ Issue(Op("git.replaceContentFromRemoteBranch", "pluginReleaseBranch", NoHash, ok))
          /\ IF ok
             THEN /\ pc' = "sync_commit"
                  /\ disk' \in Trees
                  /\ dirty' = dirty \cup {<<0, "tree">>}
                  /\ UNCHANGED <<stages, cloneVars>>
             ELSE RunStepRejected("sync") /\ UNCHANGED <<disk, dirty>>
    /\ UNCHANGED <<config, releaseBranch, publicPackages, task, processedPackages,
                   packagesToUpdate, hashVars, gitVars>>

\* Lines 104-107, then the return.
SyncCommit ==
    /\ pc = "sync_commit"
    /\ \E ok \in BOOLEAN :
          IF ok
          THEN /\ Issue(Op("git.commit", "Merge changes", NewHash, TRUE))
               /\ commitLog' = Append(commitLog,
                     [hash |-> NewHash, message |-> "Merge changes", files |-> dirty])
               /\ head' = NewHash
               /\ dirty' = {}
               /\ SyncReturn
          ELSE /\ Issue(Op("git.commit", "Merge changes", NoHash, FALSE))
               /\ RunStepRejected("sync")
               /\ UNCHANGED <<config, releaseBranch, gitVars, dirty>>
    /\ UNCHANGED <<disk, publicPackages, task, processedPackages, packagesToUpdate, hashVars>>

\* ---------------------------------------------------------- updatePackages
\* Unwrapped stages: a rejection leaves prepareForPackageRelease directly.
Throw(stage) ==
    /\ pc' = Rejected(stage)
    /\ UNCHANGED <<stages, cloneVars>>

\* Mutant: the floor is applied without the `! versionBump` test.
VersionBumpFloorFirst(lines, minimumVersionBump, releaseType, isProduction) ==
    LET versionBump == calculateVersionBumpFromChangelog(lines, minimumVersionBump)
    IN IF /\ releaseType # "next"
          /\ minimumVersionBump # "patch"
          /\ isProduction
       THEN minimumVersionBump
       ELSE versionBump

\* Lines 174-181: the version bump of one package.
VersionBumpOf(lines, minimumVersionBump, releaseType, isProduction) ==
    LET versionBump == calculateVersionBumpFromChangelog(lines, minimumVersionBump)
    IN IF /\ versionBump = NoBump
          /\ releaseType # "next"
          /\ minimumVersionBump # "patch"
          /\ isProduction
       THEN minimumVersionBump
       ELSE versionBump

\* Lines 186-196: the record of one package.
ProcessedPackage(pkg, cfg) ==
    LET versionBump == VersionBumpOf(pkg.changelog, cfg.minimumVersionBump,
                                     cfg.releaseType, pkg.production)
    IN [version |-> pkg.version,
        nextVersion |-> IF versionBump # NoBump
                        THEN semverInc(pkg.version, versionBump)
                        ELSE NoVersion]

\* Mutant: the private filter is left out.
PublicPackagesAll(tree) == Packages

\* Lines 136-147: the changelog files of the packages not marked private.
PublicPackagesOf(tree) == {p \in Packages : tree[p].private # TRUE}

\* Mutant: the filter keeps every record.
PackagesToUpdateAll(records, public) == public

\* Lines 200-202: processedPackages.filter( ( { nextVersion } ) => nextVersion ).
PackagesToUpdateOf(records, public) ==
    {p \in public : records[p].nextVersion # NoVersion}

\* Line 213: new Date().toISOString().split( 'T' )[ 0 ], the calendar date of
\* the instant the rewrites start.
Now == [date |-> "<today>", time |-> "<time>Z"]
publishDate == Now.date

\* Lines 232-236: the heading written into the changelog.
NewHeading(nextVersion, releaseType) ==
    Heading(nextVersion, IF releaseType = "next" THEN "-next.0" ELSE "", publishDate)

\* Lines 136-154: glob, the private filter, and the start of the tasks.
UpdateGlob ==
    /\ pc = "update_glob"
    /\ \E ok \in BOOLEAN :
          IF ok
          THEN /\ publicPackages' = PublicPackagesOf(disk)
               /\ task' = [p \in Packages |->
                             IF p \in PublicPackagesOf(disk) THEN "processing" ELSE "idle"]
               /\ pc' = "update_process"
               /\ UNCHANGED <<stages, cloneVars>>
          ELSE Throw("update") /\ UNCHANGED <<publicPackages, task>>
    /\ UNCHANGED <<config, releaseBranch, disk, dirty, processedPackages, packagesToUpdate,
                   hashVars, gitVars, ops>>

\* Lines 154-197: one task of the first Promise.all.
ProcessPackage ==
    /\ pc = "update_process"
    /\ \E p \in Packages, ok \in BOOLEAN :
          /\ task[p] = "processing"
          /\ IF ok
             THEN /\ processedPackages' =
                        [processedPackages EXCEPT ![p] = ProcessedPackage(disk[p], config)]
                  /\ task' = [task EXCEPT ![p] = "processed"]
                  /\ UNCHANGED <<pc, stages, cloneVars>>
             ELSE /\ task' = [task EXCEPT ![p] = "failed"]
                  /\ Throw("update")
                  /\ UNCHANGED processedPackages
    /\ UNCHANGED <<config, releaseBranch, disk, dirty, publicPackages, packagesToUpdate,
                   hashVars, gitVars, ops>>

\* Mutant: the first join goes on as soon as one record is there.
UpdateJoinEarly ==
    /\ pc = "update_process"
    /\ \E p \in publicPackages : task[p] = "processed"
    /\ LET toUpdate == PackagesToUpdateOf(processedPackages, publicPackages)
       IN /\ packagesToUpdate' = toUpdate
          /\ IF toUpdate = {}
             THEN /\ Issue(Op("log", "No changes in CHANGELOG files detected.", NoHash, TRUE))
                  /\ Advance("update")
                  /\ UNCHANGED task
             ELSE /\ task' = [p \in Packages |->
                                IF p \in toUpdate THEN "rewrite_read" ELSE task[p]]
                  /\ pc' = "update_rewrite"
                  /\ UNCHANGED <<stages, ops>>
    /\ UNCHANGED <<config, cloneVars, releaseBranch, disk, dirty, publicPackages,
                   processedPackages, hashVars, gitVars>>

\* Lines 198-215: the first join, the filter, the early return, the start of
\* the rewrite tasks.
UpdateJoin ==
    /\ pc = "update_process"
    /\ \A p \in publicPackages : task[p] = "processed"
    /\ LET toUpdate == PackagesToUpdateOf(processedPackages, publicPackages)
       IN /\ packagesToUpdate' = toUpdate
          /\ IF toUpdate = {}
             THEN /\ Issue(Op("log", "No changes in CHANGELOG files detected.", NoHash, TRUE))
                  /\ Advance("update")
                  /\ UNCHANGED task
             ELSE /\ task' = [p \in Packages |->
                                IF p \in toUpdate THEN "rewrite_read" ELSE task[p]]
                  /\ pc' = "update_rewrite"
                  /\ UNCHANGED <<stages, ops>>
    /\ UNCHANGED <<config, cloneVars, releaseBranch, disk, dirty, publicPackages,
                   processedPackages, hashVars, gitVars>>

\* A rewrite task goes on while updatePackages awaits the second Promise.all,
\* and, being in flight, may go on after another task has rejected it.
RewriteRunning == pc \in {"update_rewrite", "aborted"}

\* A rewrite task rejects: the Promise.all rejects unless it already has.
RewriteThrow ==
    /\ pc' = IF pc = "update_rewrite" THEN Rejected("update") ELSE pc
    /\ UNCHANGED <<stages, cloneVars>>

\* Lines 224-227: fs.promises.readFile.
RewriteReadFile ==
    /\ RewriteRunning
    /\ \E p \in Packages, ok \in BOOLEAN :
          /\ task[p] = "rewrite_read"
          /\ IF ok
             THEN /\ task' = [task EXCEPT ![p] = "rewrite_changelog"]
                  /\ UNCHANGED <<pc, stages, cloneVars>>
             ELSE /\ task' = [task EXCEPT ![p] = "failed"]
                  /\ RewriteThrow
    /\ UNCHANGED <<config, releaseBranch, disk, dirty, publicPackages, processedPackages,
                   packagesToUpdate, hashVars, gitVars, ops>>

\* Lines 228-238: fs.promises.writeFile of the changelog.
RewriteChangelog ==
    /\ RewriteRunning
    /\ \E p \in Packages, ok \in BOOLEAN :
          /\ task[p] = "rewrite_changelog"
          /\ IF ok
             THEN LET content == ReplaceUnreleased(disk[p].changelog,
                                    NewHeading(processedPackages[p].nextVersion,
                                               config.releaseType))
                  IN /\ disk' = [disk EXCEPT ![p].changelog = content]
                     /\ dirty' = IF content = disk[p].changelog THEN dirty
                                 ELSE dirty \cup {<<p, "changelog">>}
                     /\ task' = [task EXCEPT ![p] = "rewrite_manifest"]
                     /\ UNCHANGED <<pc, stages, cloneVars>>
             ELSE /\ task' = [task EXCEPT ![p] = "failed"]
                  /\ RewriteThrow
                  /\ UNCHANGED <<disk, dirty>>
    /\ UNCHANGED <<config, releaseBranch, publicPackages, processedPackages,
                   packagesToUpdate, hashVars, gitVars, ops>>

\* Lines 240-257: readJSONFile and fs.writeFileSync of the manifest.
RewriteManifest ==
    /\ RewriteRunning
    /\ \E p \in Packages, ok \in BOOLEAN :
          /\ task[p] = "rewrite_manifest"
          /\ IF ok
             THEN LET written == [processedPackages[p].nextVersion EXCEPT !.pre = "prerelease"]
                  IN /\ disk' = [disk EXCEPT ![p].version = written]
                     /\ dirty' = IF written = disk[p].version THEN dirty
                                 ELSE dirty \cup {<<p, "manifest">>}
                     /\ task' = [task EXCEPT ![p] = "rewritten"]
                     /\ UNCHANGED <<pc, stages, cloneVars>>
             ELSE /\ task' = [task EXCEPT ![p] = "failed_manifest"]
                  /\ RewriteThrow
                  /\ UNCHANGED <<disk, dirty>>
    /\ UNCHANGED <<config, releaseBranch, publicPackages, processedPackages,
                   packagesToUpdate, hashVars, gitVars, ops>>

\* Mutant: the join does not wait for every rewrite task.
RewriteJoinEarly ==
    /\ pc = "update_rewrite"
    /\ \E p \in packagesToUpdate : task[p] = "rewritten"
    /\ pc' = IF config.interactive THEN "update_gate" ELSE "update_commit"
    /\ UNCHANGED <<config, stages, cloneVars, releaseBranch, pkgVars, hashVars, gitVars, ops>>

\* Lines 260-262: the second join.
RewriteJoin ==
    /\ pc = "update_rewrite"
    /\ \A p \in packagesToUpdate : task[p] = "rewritten"
    /\ pc' = IF config.interactive THEN "update_gate" ELSE "update_commit"
    /\ UNCHANGED <<config, stages, cloneVars, releaseBranch, pkgVars, hashVars, gitVars, ops>>

\* Lines 262-268.
CommitConfirm ==
    /\ pc = "update_gate"
    /\ \E answer \in BOOLEAN :
          /\ Issue(Op("askForConfirmation", "Commit the changes?", NoHash, answer))
          /\ IF Accepted(answer)
             THEN pc' = "update_commit" /\ UNCHANGED <<stages, cloneVars>>
             ELSE Throw("update")
    /\ UNCHANGED <<config, releaseBranch, pkgVars, hashVars, gitVars>>

\* Lines 270-277: git.commit( dir, 'Update changelog files', [ './*' ] ) and
\* the return of the hash, assigned at line 432.
UpdateCommit ==
    /\ pc = "update_commit"
    /\ \E ok \in BOOLEAN :
          IF ok
          THEN /\ Issue(Op("git.commit", "Update changelog files", NewHash, TRUE))
               /\ commitLog' = Append(commitLog,
                     [hash |-> NewHash, message |-> "Update changelog files", files |-> dirty])
               /\ head' = NewHash
               /\ dirty' = {}
               /\ commitHashChangelogUpdates' = NewHash
               /\ Advance("update")
               /\ UNCHANGED cloneVars
          ELSE /\ Issue(Op("git.commit", "Update changelog files", NoHash, FALSE))
               /\ Throw("update")
               /\ UNCHANGED <<gitVars, dirty, commitHashChangelogUpdates>>
    /\ UNCHANGED <<config, releaseBranch, disk, publicPackages, task, processedPackages,
                   packagesToUpdate, commitHashNpmPublish, commits, cursor>>

\* --------------------------------------------------- runPushGitChangesStep
\* Lines 291-297, inside runStep.
PushConfirm ==
    /\ pc = "push_gate"
    /\ \E answer \in BOOLEAN :
          /\ Issue(Op("askForConfirmation", "push", NoHash, answer))
          /\ IF Accepted(answer)
             THEN pc' = "push_push" /\ UNCHANGED <<stages, cloneVars>>
             ELSE RunStepRejected("push")
    /\ UNCHANGED <<config, releaseBranch, pkgVars, hashVars, gitVars>>

\* Line 287: the branch the step destructures from the config it is given.
PushedBranch(cfg, localReleaseBranch) == cfg.releaseBranch

\* Line 298: git.pushBranchToOrigin( gitWorkingDirectoryPath, releaseBranch ).
PushBranch ==
    /\ pc = "push_push"
    /\ \E ok \in BOOLEAN :
          /\ Issue(Op("git.pushBranchToOrigin", PushedBranch(config, releaseBranch), NoHash, ok))
          /\ IF ok
             THEN Advance("push") /\ UNCHANGED cloneVars
             ELSE RunStepRejected("push")
    /\ UNCHANGED <<config, releaseBranch, pkgVars, hashVars, gitVars>>

\* Mutant: absent hashes are kept.
FilterNothing(hashes) == hashes

\* ---------------------------------------------------- publishPackagesToNpm
\* [ commitHashChangelogUpdates, commitHashNpmPublish ].filter( Boolean )
FilterBoolean(hashes) == SelectSeq(hashes, LAMBDA h : h # NoHash)

\* Mutant: a `next` release is versioned like a stable one.
LernaVersionArgsStable(releaseType, minimumVersionBump) ==
    CASE minimumVersionBump = "major" -> "major --no-private"
      [] minimumVersionBump = "minor" -> "minor --no-private"
      [] OTHER -> "patch --no-private"

\* The arguments of the `lerna version` command (lines 327 and 350).
LernaVersionArgs(releaseType, minimumVersionBump) ==
    IF releaseType = "next"
    THEN CASE minimumVersionBump = "major" -> "premajor --preid next.<hash> --no-private"
           [] minimumVersionBump = "minor" -> "preminor --preid next.<hash> --no-private"
           [] OTHER -> "prepatch --preid next.<hash> --no-private"
    ELSE CASE minimumVersionBump = "major" -> "major --no-private"
           [] minimumVersionBump = "minor" -> "minor --no-private"
           [] OTHER -> "patch --no-private"

\* A command of the publish stage; when the tool chain commits version changes
\* the head of the release branch moves.
PublishCommand(at, cmd, arg, hash, next, mayCommit) ==
    /\ pc = at
    /\ \E ok \in BOOLEAN, commit \in (IF mayCommit THEN BOOLEAN ELSE {FALSE}) :
          /\ Issue(Op(cmd, arg, hash, ok))
          /\ IF ok
             THEN /\ pc' = next
                  /\ IF commit
                     THEN /\ commitLog' = Append(commitLog,
                               [hash |-> NewHash, message |-> cmd, files |-> dirty])
                          /\ head' = NewHash
                          /\ dirty' = {}
                     ELSE UNCHANGED <<gitVars, dirty>>
                  /\ UNCHANGED <<stages, cloneVars>>
             ELSE Throw("publish") /\ UNCHANGED <<gitVars, dirty>>
    /\ UNCHANGED <<config, releaseBranch, disk, publicPackages, task, processedPackages,
                   packagesToUpdate, hashVars>>

\* Lines 314-319.
PublishNpmCi ==
    PublishCommand("publish_ci", "npm ci", "", NoHash,
                   CASE config.releaseType = "next" -> "publish_preid"
                     [] config.releaseType = "bugfix" -> "publish_latest"
                     [] OTHER -> "publish_version",
                   FALSE)

\* Lines 323-325.
PublishGetPreid ==
    PublishCommand("publish_preid", "git.getLastCommitHash", "", head, "publish_version", FALSE)

\* The release keyword `lerna version` is given (lines 327 and 350).
LernaRelease(releaseType, minimumVersionBump) ==
    IF releaseType = "next"
    THEN CASE minimumVersionBump = "major" -> "premajor"
           [] minimumVersionBump = "minor" -> "preminor"
           [] OTHER -> "prepatch"
    ELSE minimumVersionBump

\* The packages `lerna version --no-private` finds changed: the public ones
\* with a file in a commit of the run.
LernaChanged ==
    {p \in publicPackages :
        \E i \in 1..Len(commitLog) : \E f \in commitLog[i].files : f[1] = p}

\* Lines 326-332 (next) and 349-355 (latest): every changed package gets
\* semver.inc( version, release ) in its manifest, and the manifests are
\* committed; with no changed package known to the run the command may or
\* may not have something to commit.
PublishLernaVersion ==
    /\ pc = "publish_version"
    /\ \E ok \in BOOLEAN, commit \in (IF LernaChanged = {} THEN BOOLEAN ELSE {TRUE}) :
          /\ Issue(Op("npx lerna version",
                      LernaVersionArgs(config.releaseType, config.minimumVersionBump),
                      IF config.releaseType = "next" THEN head ELSE NoHash, ok))
          /\ IF ok
             THEN /\ pc' = "publish_publish"
                  /\ IF commit
                     THEN /\ disk' = [p \in Packages |->
                                 IF p \in LernaChanged
                                 THEN [disk[p] EXCEPT !.version =
                                         semverInc(@, LernaRelease(config.releaseType,
                                                                   config.minimumVersionBump))]
                                 ELSE disk[p]]
                          /\ commitLog' = Append(commitLog,
                               [hash |-> NewHash, message |-> "npx lerna version",
                                files |-> {<<p, "manifest">> : p \in LernaChanged}])
                          /\ head' = NewHash
                     ELSE UNCHANGED <<gitVars, disk>>
                  /\ UNCHANGED <<stages, cloneVars>>
             ELSE Throw("publish") /\ UNCHANGED <<gitVars, disk>>
    /\ UNCHANGED <<config, releaseBranch, dirty, publicPackages, task, processedPackages,
                   packagesToUpdate, hashVars>>

\* Lines 335-338 (next) and 358-361 (latest).
PublishLernaPublish ==
    PublishCommand("publish_publish", "npx lerna publish",
                   IF config.releaseType = "next" THEN "from-package --dist-tag next"
                   ELSE "from-package",
                   NoHash, "publish_head", FALSE)

\* Lines 341-344 (bugfix).
PublishLatestScript ==
    PublishCommand("publish_latest", "npm run publish:latest", "", NoHash, "publish_head", TRUE)

\* Line 364, the assignment of line 442 and the call of lines 444-447.
PublishReturn ==
    /\ pc = "publish_head"
    /\ \E ok \in BOOLEAN :
          /\ Issue(Op("git.getLastCommitHash", "", head, ok))
          /\ IF ok
             THEN /\ commitHashNpmPublish' = head
                  /\ commits' = FilterBoolean(<<commitHashChangelogUpdates, head>>)
                  /\ Advance("publish")
                  /\ UNCHANGED cloneVars
             ELSE Throw("publish") /\ UNCHANGED <<commitHashNpmPublish, commits>>
    /\ UNCHANGED <<config, releaseBranch, pkgVars, commitHashChangelogUpdates, cursor, gitVars>>

\* --------------------------------------------------- backportCommitsToTrunk
\* Mutant: the guard tests the commit list only.
BackportSkippedOnEmptyOnly(releaseType, commitList) == Len(commitList) = 0

\* Lines 377-382: the guard.
BackportSkipped(releaseType, commitList) ==
    \/ ~(releaseType \in {"latest", "bugfix"})
    \/ Len(commitList) = 0

BackportEnter ==
    /\ pc = "backport"
    /\ IF BackportSkipped(config.releaseType, commits)
       THEN Advance("backport")
       ELSE pc' = "backport_reset" /\ UNCHANGED stages
    /\ UNCHANGED <<config, cloneVars, releaseBranch, pkgVars, hashVars, gitVars, ops>>

\* Line 385.
BackportReset ==
    /\ pc = "backport_reset"
    /\ \E ok \in BOOLEAN :
          /\ Issue(Op("git.resetLocalBranchAgainstOrigin", "trunk", NoHash, ok))
          /\ IF ok
             THEN /\ pc' = "backport_pick"
                  /\ cursor' = 1
                  /\ UNCHANGED <<stages, cloneVars>>
             ELSE Throw("backport") /\ UNCHANGED cursor
    /\ UNCHANGED <<config, releaseBranch, pkgVars, commitHashChangelogUpdates,
                   commitHashNpmPublish, commits, gitVars>>

\* Mutant: the loop ends after its first iteration.
AfterPickOnce(index, commitList) == "backport_push"

\* The position after a resolved cherry-pick (the for..of loop, lines 386-391).
AfterPick(index, commitList) ==
    IF index < Len(commitList) THEN "backport_pick" ELSE "backport_push"

\* Lines 386-391: one iteration.
BackportCherryPick ==
    /\ pc = "backport_pick"
    /\ \E ok \in BOOLEAN :
          /\ Issue(Op("git.cherrypickCommitIntoBranch", "trunk", commits[cursor], ok))
          /\ IF ok
             THEN /\ pc' = AfterPick(cursor, commits)
                  /\ cursor' = cursor + 1
                  /\ UNCHANGED <<stages, cloneVars>>
             ELSE Throw("backport") /\ UNCHANGED cursor
    /\ UNCHANGED <<config, releaseBranch, pkgVars, commitHashChangelogUpdates,
                   commitHashNpmPublish, commits, gitVars>>

\* Line 392.
BackportPush ==
    /\ pc = "backport_push"
    /\ \E ok \in BOOLEAN :
          /\ Issue(Op("git.pushBranchToOrigin", "trunk", NoHash, ok))
          /\ IF ok
             THEN Advance("backport") /\ UNCHANGED cloneVars
             ELSE Throw("backport")
    /\ UNCHANGED <<config, releaseBranch, pkgVars, hashVars, gitVars>>

\* ------------------------------------------------ runCleanLocalFoldersStep
Range(seq) == {seq[i] : i \in 1..Len(seq)}

\* Line 449: the folders of the list are removed.
CleanStep ==
    /\ pc = "cleanup"
    /\ \E ok \in BOOLEAN :
          /\ Issue(Op("runCleanLocalFoldersStep", "temporaryFolders", NoHash, ok))
          /\ IF ok
             THEN /\ tmpDirs' = tmpDirs \ Range(temporaryFolders)
                  /\ Advance("cleanup")
                  /\ UNCHANGED temporaryFolders
             ELSE /\ pc' = Rejected("cleanup")
                  /\ UNCHANGED <<stages, cloneVars>>
    /\ UNCHANGED <<config, releaseBranch, pkgVars, hashVars, gitVars>>

Next ==
    \/ AskReadyToGo
    \/ CloneStep
    \/ StartCI
    \/ SyncCheckoutTrunk
    \/ SyncCheckoutRelease
    \/ SyncFetch
    \/ SyncConfirm
    \/ SyncReplaceContent
    \/ SyncCommit
    \/ UpdateGlob
    \/ ProcessPackage
    \/ UpdateJoin
    \/ RewriteReadFile
    \/ RewriteChangelog
    \/ RewriteManifest
    \/ RewriteJoin
    \/ CommitConfirm
    \/ UpdateCommit
    \/ PushConfirm
    \/ PushBranch
    \/ PublishNpmCi
    \/ PublishGetPreid
    \/ PublishLernaVersion
    \/ PublishLernaPublish
    \/ PublishLatestScript
    \/ PublishReturn
    \/ BackportEnter
    \/ BackportReset
    \/ BackportCherryPick
    \/ BackportPush
    \/ CleanStep

Spec == Init /\ [][Next]_vars

\* backportCommitsToTrunk on its own: every release type, every commit list.
CommitLists == UNION {[1..n -> 1..MaxHash] : n \in 0..MaxCommits}

InitBackport ==
    /\ \E ci \in BOOLEAN, releaseType \in ReleaseTypes :
          config = [InitConfig(ci, "patch", releaseType) EXCEPT
                       !.gitWorkingDirectoryPath = "cwd"]
    /\ pc = "backport"
    /\ disk = NoTree
    /\ commits \in CommitLists
    /\ InitRest

NextBackport ==
    \/ BackportEnter
    \/ BackportReset
    \/ BackportCherryPick
    \/ BackportPush

SpecBackport == InitBackport /\ [][NextBackport]_vars

\* updatePackages on its own, called a second time on the working directory
\* the first call left behind.
Runs == 2

InitUpdate ==
    /\ \E ci \in BOOLEAN, semver \in SemVers, releaseType \in ReleaseTypes :
          config = [InitConfig(ci, semver, releaseType) EXCEPT
                       !.gitWorkingDirectoryPath = "cwd"]
    /\ pc = "update_glob"
    /\ disk \in Trees
    /\ commits = <<>>
    /\ InitRest

\* The calls of updatePackages made so far.
UpdateCalls == 1 + Cardinality({i \in 1..Len(stages) : stages[i] = Call("update")})

\* Lines 132-135: updatePackages( config ) is entered again, with fresh
\* locals, once the previous call has returned.
Rerun ==
    /\ pc = Entry("push", config)
    /\ UpdateCalls < Runs
    /\ pc' = "update_glob"
    /\ stages' = Append(stages, Call("update"))
    /\ publicPackages' = {}
    /\ task' = [p \in Packages |-> "idle"]
    /\ processedPackages' = [p \in Packages |-> NoRecord]
    /\ packagesToUpdate' = {}
    /\ UNCHANGED <<config, cloneVars, releaseBranch, disk, dirty, hashVars, gitVars, ops>>

NextUpdate ==
    \/ UpdateGlob
    \/ ProcessPackage
    \/ UpdateJoin
    \/ RewriteReadFile
    \/ RewriteChangelog
    \/ RewriteManifest
    \/ RewriteJoin
    \/ CommitConfirm
    \/ UpdateCommit
    \/ Rerun

SpecUpdate == InitUpdate /\ [][NextUpdate]_vars

\* ================================================================== claims
IsPrefix(a, b) == Len(a) <= Len(b) /\ \A i \in 1..Len(a) : a[i] = b[i]

Issued(name) == {i \in 1..Len(ops) : ops[i].op = name}
IssuedIn(stage, name) == {i \in 1..Len(ops) : ops[i].op = name /\ ops[i].stage = stage}
Returned(stage) == Return(stage) \in Range(stages)
Ended == pc \in {"done", "aborted"}

\* The stage events of a complete run.
StageOrder(interactive) ==
    (IF interactive THEN <<"clone">> ELSE <<>>) \o
    <<"sync", "update", "push", "publish", "backport", "cleanup">>

RECURSIVE Events(_)
Events(order) ==
    IF order = <<>> THEN <<>>
    ELSE <<Call(Head(order)), Return(Head(order))>> \o Events(Tail(order))

\* C1: a run that ends successfully has called and returned from the stages
\* (clone when interactive), sync, update, push, publish, backport, cleanup in
\* that order, each once, every stage called only after the one before it
\* returned; no publish command is issued before a push of the release branch
\* has resolved.
C1_StagesInOrder ==
    /\ IsPrefix(stages, Events(StageOrder(config.interactive)))
    /\ pc = "done" => stages = Events(StageOrder(config.interactive))
    /\ \A i \in 1..Len(ops) :
          ops[i].stage = "publish" =>
             \E j \in 1..(i - 1) :
                ops[j].stage = "push" /\ ops[j].op = "git.pushBranchToOrigin" /\ ops[j].ok

C1_Witness ==
    /\ pc = "done"
    /\ config.interactive
    /\ commitHashChangelogUpdates # NoHash
    /\ IssuedIn("backport", "git.pushBranchToOrigin") # {}

\* updatePackages returned with no record carrying a nextVersion.
NoPackageToUpdate ==
    /\ Returned("update")
    /\ \A p \in publicPackages : processedPackages[p].nextVersion = NoVersion

\* C2 (as stated): when updatePackages finds no package with a nextVersion, no
\* commit is created and neither the push of the release branch nor a registry
\* publish command is issued in that run.
C2_SkipsPushAndPublish ==
    NoPackageToUpdate =>
       /\ IssuedIn("update", "git.commit") = {}
       /\ IssuedIn("push", "git.pushBranchToOrigin") = {}
       /\ \A i \in 1..Len(ops) : ops[i].stage # "publish"

\* C2 (amended): when updatePackages finds no package with a nextVersion, it
\* reports no changes, creates no commit and returns no hash; the push and the
\* publish stages still run, and a run that then returns cleanly has pushed the
\* release branch and issued the registry publish commands.
C2_NoChangesStillPublishes ==
    NoPackageToUpdate =>
       /\ Issued("log") # {}
       /\ IssuedIn("update", "git.commit") = {}
       /\ commitHashChangelogUpdates = NoHash
       /\ \A p \in Packages : task[p] \in {"idle", "processed"}
       /\ pc = "done" =>
             /\ IssuedIn("push", "git.pushBranchToOrigin") # {}
             /\ IssuedIn("publish", "npm ci") # {}
             /\ commits = <<commitHashNpmPublish>>

C2_Witness ==
    /\ pc = "done"
    /\ NoPackageToUpdate
    /\ publicPackages # {}

\* C3 (as stated): when the push step calls the version-control push, the
\* config holds the release branch name the sync stage returned as
\* releaseBranch, and the branch argument of the call is that name.
C3_PushPassesReleaseBranch ==
    \A i \in IssuedIn("push", "git.pushBranchToOrigin") :
       /\ config.releaseBranch = wordpressReleaseBranch(config.releaseType)
       /\ ops[i].arg = wordpressReleaseBranch(config.releaseType)

\* C4 (as stated): a run that has created the temporary clone directory never
\* ends, successfully or by abort, with that directory still on disk.
C4_TempDirCleanedAtEnd ==
    Ended => tmpDirs = {}

\* C5: a rejected call or a declined confirmation is the last call the run
\* issues and leaves the run aborted; an aborted run issues no further call
\* and creates no commit, and the calls issued and commits created so far are
\* kept.
C5_NoStepAfterFailure ==
    /\ [](\A i \in 1..Len(ops) : ~ops[i].ok => (i = Len(ops) /\ pc = "aborted"))
    /\ [][/\ IsPrefix(ops, ops')
          /\ IsPrefix(commitLog, commitLog')
          /\ pc = "aborted" => (pc' = "aborted" /\ ops' = ops /\ commitLog' = commitLog)]_vars

C5_Witness ==
    /\ pc = "aborted"
    /\ commitHashChangelogUpdates # NoHash
    /\ \E i \in IssuedIn("push", "git.pushBranchToOrigin") : ops[i].ok
    /\ ~ops[Len(ops)].ok
    /\ ops[Len(ops)].stage = "publish"

\* The packages whose record carries a nextVersion.
Bumped == {p \in publicPackages : processedPackages[p].nextVersion # NoVersion}

\* The packages whose changelog, and whose manifest, the run has written.
ChangelogWritten == {p \in Packages : task[p] \in {"rewrite_manifest", "failed_manifest", "rewritten"}}
ManifestWritten == {p \in Packages : task[p] = "rewritten"}

\* The 'Update changelog files' commits of the run.
UpdateCommits == {i \in 1..Len(commitLog) : commitLog[i].message = "Update changelog files"}

\* The packages whose changelog and manifest changes are in an update commit.
CommittedPackages ==
    {p \in Packages : \E i \in UpdateCommits :
        {<<p, "changelog">>, <<p, "manifest">>} \subseteq commitLog[i].files}

\* The run reached the commit step of updatePackages.
CommitStepReached ==
    IssuedIn("update", "askForConfirmation") # {} \/ IssuedIn("update", "git.commit") # {}

\* C6 (as stated): at the end of every run that reached the commit step, a
\* declined confirmation or a failed commit included, the packages with a
\* nextVersion are exactly the packages whose changelog and manifest were
\* rewritten, and exactly the packages whose rewrites are part of the update
\* commit.
C6_RewrittenIffCommitted ==
    (Ended /\ CommitStepReached) =>
       /\ Bumped = ChangelogWritten \cap ManifestWritten
       /\ Bumped = CommittedPackages

\* C6 (amended): in a run in which the 'Update changelog files' commit was
\* created there is one such commit, the packages with a nextVersion are
\* exactly the packages whose changelog and manifest were written, and the
\* commit holds every change those writes made: the manifest of each of them
\* and the changelog of each that has an Unreleased marker.  Without that
\* commit the files written so far stay changed in the working tree.
C6_CommitHoldsEveryRewrite ==
    /\ Cardinality(UpdateCommits) <= 1
    /\ \A i \in UpdateCommits :
          /\ Bumped = ManifestWritten
          /\ Bumped = ChangelogWritten
          /\ commitLog[i].files =
                {<<p, "manifest">> : p \in Bumped} \cup
                {<<p, "changelog">> : p \in {q \in Bumped : FirstUnreleased(disk[q].changelog) # 0}}
    /\ UpdateCommits = {} =>
          /\ \A p \in ManifestWritten : <<p, "manifest">> \in dirty
          /\ ManifestWritten \subseteq ChangelogWritten
          /\ ChangelogWritten \subseteq Bumped

C6_Witness ==
    /\ UpdateCommits # {}
    /\ Cardinality(Bumped) = NumPackages
    /\ \E p \in Bumped : FirstUnreleased(disk[p].changelog) = 0
    /\ \E p \in Bumped : FirstUnreleased(disk[p].changelog) # 0

\* The bump the changelog of p yields.
ChangelogBump(p) ==
    calculateVersionBumpFromChangelog(disk[p].changelog, config.minimumVersionBump)

\* The production minimum-bump floor applies to p.
FloorApplies(p) ==
    /\ config.releaseType # "next"
    /\ config.minimumVersionBump # "patch"
    /\ disk[p].production

\* C7: the record of a non-private package has as nextVersion the current
\* version incremented by the changelog bump when there is one, else the
\* current version incremented by minimumVersionBump when the floor applies,
\* else null.  (Stated where the record exists and the files are as read.)
C7_NextVersion ==
    \A p \in publicPackages :
       task[p] = "processed" =>
          processedPackages[p].nextVersion =
             IF ChangelogBump(p) # NoBump
             THEN semverInc(disk[p].version, ChangelogBump(p))
             ELSE IF FloorApplies(p)
             THEN semverInc(disk[p].version, config.minimumVersionBump)
             ELSE NoVersion

C7_Witness ==
    /\ config.minimumVersionBump = "minor"
    /\ \E p, q \in publicPackages :
          /\ task[p] = "processed" /\ task[q] = "processed"
          /\ FloorApplies(p) /\ ChangelogBump(p) = "major"
          /\ processedPackages[p].nextVersion = Version(5, 0, 0, "")
          /\ FloorApplies(q) /\ ChangelogBump(q) = NoBump
          /\ processedPackages[q].nextVersion = Version(4, 3, 0, "")

\* C8: with releaseType next, or with an empty commit list, the backport
\* issues no call at all: no reset, no cherry-pick, no push.
C8_BackportSkip ==
    (config.releaseType = "next" \/ commits = <<>>) =>
       /\ \A i \in 1..Len(ops) : ops[i].stage # "backport"
       /\ pc \in {"backport", "cleanup"}

C8_Witness ==
    /\ pc = "cleanup"
    /\ config.releaseType = "next"
    /\ Len(commits) = MaxCommits

\* The calls a complete backport of the list issues.
BackportCalls(commitList) ==
    <<[op |-> "git.resetLocalBranchAgainstOrigin", hash |-> NoHash]>> \o
    [i \in 1..Len(commitList) |-> [op |-> "git.cherrypickCommitIntoBranch", hash |-> commitList[i]]] \o
    <<[op |-> "git.pushBranchToOrigin", hash |-> NoHash]>>

\* C9: for latest and bugfix with a non-empty list the backport resets trunk
\* once, cherry-picks the commits in list order, then pushes trunk once; a
\* rejected call is the last one issued, so a failed cherry-pick is followed
\* by no further cherry-pick and no push, and nothing is rolled back.
C9_BackportOrder ==
    (config.releaseType \in {"latest", "bugfix"} /\ commits # <<>>) =>
       /\ IsPrefix([i \in 1..Len(ops) |-> [op |-> ops[i].op, hash |-> ops[i].hash]],
                   BackportCalls(commits))
       /\ \A i \in 1..Len(ops) : ~ops[i].ok => (i = Len(ops) /\ pc = "aborted")
       /\ pc = "cleanup" => Len(ops) = Len(commits) + 2

C9_Witness ==
    /\ pc = "aborted"
    /\ Len(commits) = MaxCommits
    /\ Len(ops) = MaxCommits
    /\ ops[Len(ops)].op = "git.cherrypickCommitIntoBranch"

\* C10: the sync stage issues the content replacement and its commit only for
\* latest and next; when it returns it has checked out trunk and the release
\* branch and fetched, and it has replaced and committed exactly when the
\* release type is latest or next.
C10_SyncReplacesIffLatestOrNext ==
    LET okIn(name) == \E i \in IssuedIn("sync", name) : ops[i].ok
    IN /\ (IssuedIn("sync", "git.replaceContentFromRemoteBranch") # {}
           \/ IssuedIn("sync", "git.commit") # {})
             => config.releaseType \in {"latest", "next"}
       /\ Returned("sync") =>
             /\ Cardinality(IssuedIn("sync", "git.checkoutRemoteBranch")) = 2
             /\ okIn("git.fetch")
             /\ (config.releaseType \in {"latest", "next"}
                   <=> okIn("git.replaceContentFromRemoteBranch") /\ okIn("git.commit"))

C10_Witness ==
    /\ Returned("sync")
    /\ config.releaseType = "bugfix"
    /\ IssuedIn("sync", "git.fetch") # {}

\* ------------------------------------------------------------------- C11
\* The four confirmation prompts of the pipeline.
Gates == {"Ready to go?", "sync", "Commit the changes?", "push"}

\* The prompt that guards an operation, "" for an unguarded one.
GateOf(o) ==
    CASE o.op = "git.clone" -> "Ready to go?"
      [] o.op = "git.replaceContentFromRemoteBranch" -> "sync"
      [] o.op = "git.commit" /\ o.arg = "Update changelog files" -> "Commit the changes?"
      [] o.op = "git.pushBranchToOrigin" /\ o.stage = "push" -> "push"
      [] OTHER -> ""

\* C11: confirmations are requested at four points only (before the clone,
\* before the branch content replacement, before the changelog commit, before
\* the push of the release branch), each at most once and only in interactive
\* mode; in an interactive run each of the four operations is issued only
\* after its confirmation was requested and accepted; in CI mode no
\* confirmation is requested and no clone is performed.
C11_GatesOnlyInteractive ==
    /\ \A i \in Issued("askForConfirmation") :
          /\ config.interactive
          /\ ops[i].arg \in Gates
          /\ \A j \in Issued("askForConfirmation") : ops[j].arg = ops[i].arg => j = i
    /\ config.interactive =>
          \A i \in 1..Len(ops) :
             GateOf(ops[i]) # "" =>
                \E j \in 1..(i - 1) :
                   /\ ops[j].op = "askForConfirmation"
                   /\ ops[j].arg = GateOf(ops[i])
                   /\ ops[j].ok
    /\ ~ config.interactive =>
          Issued("askForConfirmation") = {} /\ Issued("git.clone") = {}

\* An interactive run that ended cleanly after all four gated operations.
C11_Witness ==
    /\ pc = "done"
    /\ config.interactive
    /\ {ops[i].arg : i \in Issued("askForConfirmation")} = Gates
    /\ \A g \in Gates : \E i \in 1..Len(ops) : GateOf(ops[i]) = g /\ ops[i].ok

\* ------------------------------------------------------------------- C12
\* The commands of the publish stage, in issue order.
PublishOps == SelectSeq(ops, LAMBDA o : o.stage = "publish")

\* The commands a release type calls for, with the head read that ends the
\* stage.
ExpectedPublish(releaseType, minimumVersionBump) ==
    CASE releaseType = "next" ->
            << <<"npm ci", "">>,
               <<"git.getLastCommitHash", "">>,
               <<"npx lerna version",
                 CASE minimumVersionBump = "major" -> "premajor --preid next.<hash> --no-private"
                   [] minimumVersionBump = "minor" -> "preminor --preid next.<hash> --no-private"
                   [] minimumVersionBump = "patch" -> "prepatch --preid next.<hash> --no-private">>,
               <<"npx lerna publish", "from-package --dist-tag next">>,
               <<"git.getLastCommitHash", "">> >>
      [] releaseType = "latest" ->
            << <<"npm ci", "">>,
               <<"npx lerna version",
                 CASE minimumVersionBump = "major" -> "major --no-private"
                   [] minimumVersionBump = "minor" -> "minor --no-private"
                   [] minimumVersionBump = "patch" -> "patch --no-private">>,
               <<"npx lerna publish", "from-package">>,
               <<"git.getLastCommitHash", "">> >>
      [] releaseType = "bugfix" ->
            << <<"npm ci", "">>,
               <<"npm run publish:latest", "">>,
               <<"git.getLastCommitHash", "">> >>

\* C12: the commands of the publish stage are, by release type: for next,
\* dependency install, `lerna version pre<minimumVersionBump>` with the
\* pre-release identifier made of the last commit hash and private packages
\* excluded, then the publish under the next dist tag; for latest, dependency
\* install, `lerna version <minimumVersionBump>` with private packages
\* excluded, then the publish under the default tag; for bugfix, dependency
\* install and the publish:latest script only.  Each command is issued only
\* after the one before it resolved, and the stage returns after all of them.
C12_PublishCommands ==
    LET expected == ExpectedPublish(config.releaseType, config.minimumVersionBump)
    IN /\ Len(PublishOps) <= Len(expected)
       /\ \A i \in 1..Len(PublishOps) :
             /\ <<PublishOps[i].op, PublishOps[i].arg>> = expected[i]
             /\ i < Len(PublishOps) => PublishOps[i].ok
       /\ Returned("publish") =>
             Len(PublishOps) = Len(expected) /\ PublishOps[Len(PublishOps)].ok
       /\ config.releaseType = "next" /\ Len(PublishOps) >= 3 =>
             /\ PublishOps[3].hash = PublishOps[2].hash
             /\ PublishOps[2].hash # NoHash

\* A next run whose publish stage returned.
C12_Witness ==
    /\ Returned("publish")
    /\ config.releaseType = "next"
    /\ config.minimumVersionBump = "minor"
    /\ \E i \in Issued("npx lerna publish") :
          ops[i].arg = "from-package --dist-tag next" /\ ops[i].ok

\* ------------------------------------------------------------------- C13
\* C13: once the publish stage has returned, its return value is the head
\* hash of the release branch read after the publish commands completed, and
\* the commit list of the backport stage is the changelog commit hash followed
\* by that hash, absent hashes left out and the order kept.
C13_BackportList ==
    Returned("publish") =>
       LET last == PublishOps[Len(PublishOps)]
           branchHead == IF commitLog = <<>> THEN 1 ELSE commitLog[Len(commitLog)].hash
       IN /\ last.op = "git.getLastCommitHash" /\ last.ok
          /\ commitHashNpmPublish = last.hash
          /\ commitHashNpmPublish = branchHead
          /\ commitHashChangelogUpdates \in
                {NoHash} \cup {commitLog[i].hash : i \in UpdateCommits}
          /\ commits = IF commitHashChangelogUpdates = NoHash
                       THEN <<commitHashNpmPublish>>
                       ELSE <<commitHashChangelogUpdates, commitHashNpmPublish>>
          /\ NoHash \notin Range(commits)

\* A run with a changelog commit followed by a commit of the publish stage.
C13_Witness ==
    /\ Returned("publish")
    /\ commitHashChangelogUpdates # NoHash
    /\ Len(commits) = 2
    /\ commits[1] # commits[2]

\* ------------------------------------------------------------------- C14
\* The lines of a changelog under the heading at index i, up to the next
\* "## " heading.
SectionUnder(lines, i) ==
    LET stops == {j \in (i + 1)..Len(lines) : lines[j].kind \in {"V", "U"}}
        last == IF stops = {} THEN Len(lines)
                ELSE (CHOOSE j \in stops : \A k \in stops : j <= k) - 1
    IN SubSeq(lines, i + 1, last)

\* A changelog without its line i.
WithoutLine(lines, i) == SubSeq(lines, 1, i - 1) \o SubSeq(lines, i + 1, Len(lines))

\* The changelog of p carries, right under its Unreleased marker, the dated
\* heading of p's nextVersion, once; the Unreleased section is empty and the
\* entries it had are under the new heading.
HeadingInserted(p) ==
    LET lines == disk[p].changelog
        u == FirstUnreleased(lines)
        expected == [kind |-> "V",
                     ver |-> processedPackages[p].nextVersion,
                     suffix |-> IF config.releaseType = "next" THEN "-next.0" ELSE "",
                     date |-> Now.date]
    IN /\ u # 0
       /\ u < Len(lines)
       /\ lines[u + 1] = expected
       /\ Cardinality({i \in 1..Len(lines) : lines[i] = expected}) = 1
       /\ UnreleasedSection(lines) = <<>>
       /\ WithoutLine(lines, u + 1) \in Changelogs
       /\ SectionUnder(lines, u + 1) = UnreleasedSection(WithoutLine(lines, u + 1))

\* C14 (as stated): for every package with a non-null nextVersion whose
\* changelog the run has rewritten, the changelog has one new dated heading
\* next to the Unreleased marker, a fresh empty Unreleased section on top and
\* the previously unreleased entries under the new heading; the heading
\* carries nextVersion, with '-next.0' appended for a next release, and the
\* ISO calendar date of the run.
C14_HeadingForEveryBump ==
    \A p \in ChangelogWritten : HeadingInserted(p)

\* ------------------------------------------------------------------- C15
\* updatePackages is running, or has run, for the second time.
InSecondRun == Call("update") \in Range(stages)

\* Every manifest carrying the '-prerelease' mark has the heading of its
\* version in the changelog: the first run left its target headings behind.
HeadingsOfFirstRun ==
    \A p \in Packages :
       disk[p].version.pre = "prerelease" =>
          \E i \in 1..Len(disk[p].changelog) :
             /\ disk[p].changelog[i].kind = "V"
             /\ disk[p].changelog[i].ver = [disk[p].version EXCEPT !.pre = ""]

\* The version headings a changelog carries more than once.
DuplicateHeadings(lines) ==
    {i \in 1..Len(lines) :
        /\ lines[i].kind = "V"
        /\ lines[i].ver # NoVersion
        /\ \E j \in 1..Len(lines) : j # i /\ lines[j] = lines[i]}

\* C15 (as stated): a second run of updatePackages on a repository whose
\* changelogs already contain the target version headings of the first run
\* duplicates no heading, rewrites no changelog and no manifest, and returns
\* after reporting that no changes were detected, for every release type and
\* every minimumVersionBump, the packages under the production floor included.
C15_SecondRunChangesNothing ==
    InSecondRun /\ HeadingsOfFirstRun =>
       /\ \A p \in Packages : DuplicateHeadings(disk[p].changelog) = {}
       /\ ChangelogWritten = {} /\ ManifestWritten = {}
       /\ pc = Entry("push", config) =>
             /\ ops # <<>>
             /\ ops[Len(ops)].op = "log"
             /\ Cardinality(UpdateCommits) <= 1

\* ------------------------------------------------------------------- C16
\* `lerna version` has resolved in this run.
LernaVersioned == \E i \in Issued("npx lerna version") : ops[i].ok

\* C16 (as stated): the manifest of every updated package is written as
\* nextVersion plus '-prerelease', and once the publish stage of a latest
\* release has returned, the manifest of every package of the changelog commit
\* holds exactly nextVersion, the version of its changelog heading, whatever
\* the changelog bump of the package and the minimumVersionBump are.
C16_ManifestRoundTrip ==
    /\ ~ LernaVersioned =>
          \A p \in ManifestWritten :
             disk[p].version = [num |-> processedPackages[p].nextVersion.num,
                                pre |-> "prerelease"]
    /\ config.releaseType = "latest" /\ Returned("publish") =>
          \A p \in CommittedPackages :
             /\ disk[p].version = processedPackages[p].nextVersion
             /\ disk[p].changelog[FirstUnreleased(disk[p].changelog) + 1].ver =
                   disk[p].version

\* ------------------------------------------------------------------- C17
\* The files of package p that are changed in the working tree or part of a
\* commit of the run.
TouchedFiles(p) ==
    {f \in dirty : f[1] = p} \cup
    UNION {{f \in commitLog[i].files : f[1] = p} : i \in 1..Len(commitLog)}

\* C17: a package marked private gets no change record, whatever its changelog
\* holds and whether or not the production floor would apply: no task reads
\* its changelog or manifest, neither file is rewritten, and it is never among
\* the packages to update.
C17_PrivateUntouched ==
    \A p \in Packages :
       disk # NoTree /\ disk[p].private =>
          /\ p \notin publicPackages
          /\ p \notin packagesToUpdate
          /\ task[p] = "idle"
          /\ processedPackages[p] = NoRecord
          /\ disk[p].changelog = ChangelogBreaking
          /\ disk[p].version \in Versions
          /\ TouchedFiles(p) = {}

\* A latest run up to the end of the publish stage, with a private production
\* package under a floor and a breaking changelog, next to an updated package.
C17_Witness ==
    /\ Returned("publish")
    /\ config.releaseType = "latest"
    /\ config.minimumVersionBump = "minor"
    /\ LernaVersioned
    /\ \E p, q \in Packages :
          /\ disk[p].private /\ disk[p].production
          /\ calculateVersionBumpFromChangelog(disk[p].changelog, "minor") = "major"
          /\ q \in CommittedPackages

\* ------------------------------------------------------------------- C18
\* The packages with a rewrite task started.
RewriteStarted ==
    {p \in Packages : task[p] \in {"rewrite_read", "rewrite_changelog", "rewrite_manifest",
                                   "failed_manifest", "rewritten"}}

\* C18: under every interleaving of the per-package tasks, no changelog or
\* manifest rewrite is started before the record of every public package is
\* computed, and the commit confirmation and the commit are issued only after
\* the changelog and the manifest of every package to update are rewritten.
C18_JoinsHold ==
    /\ RewriteStarted # {} =>
          \A q \in publicPackages :
             /\ task[q] # "processing"
             /\ task[q] # "idle"
             /\ processedPackages[q] # NoRecord
    /\ CommitStepReached =>
          \A p \in packagesToUpdate :
             p \in ChangelogWritten /\ p \in ManifestWritten

\* Every package was rewritten and the commit was issued.
C18_Witness ==
    /\ IssuedIn("update", "git.commit") # {}
    /\ Cardinality(packagesToUpdate) = NumPackages

\* ------------------------------------------------------------------- C19
\* C19 (as stated): in a latest or bugfix run the changelog commit hash and the
\* head hash read after the publish stage are distinct, also when the publish
\* stage created no commit, so the commit list of the backport stage holds no
\* hash twice and no commit is cherry-picked onto trunk more than once.
C19_NoCommitPickedTwice ==
    config.releaseType \in {"latest", "bugfix"} =>
       /\ Returned("publish") =>
             /\ commitHashChangelogUpdates # commitHashNpmPublish
             /\ \A i, j \in 1..Len(commits) : commits[i] = commits[j] => i = j
       /\ \A i, j \in Issued("git.cherrypickCommitIntoBranch") :
             ops[i].hash = ops[j].hash => i = j

\* ------------------------------------------------------------------- C20
\* C20: the folders handed to the cleanup step hold the working directory only
\* when the clone step of an interactive run created it.  In CI mode the
\* working directory is the current directory of the process, the list of
\* temporary folders is empty during the whole run, and the cleanup removes
\* nothing; in an interactive run the list holds nothing but the directory a
\* resolved clone returned.
C20_OnlyClonedFolderCleaned ==
    /\ "cwd" \notin Range(temporaryFolders)
    /\ ~ config.interactive =>
          /\ temporaryFolders = <<>>
          /\ tmpDirs = {}
          /\ pc # "start" => config.gitWorkingDirectoryPath = "cwd"
    /\ config.interactive =>
          IF \E i \in Issued("git.clone") : ops[i].ok
          THEN /\ temporaryFolders = <<config.gitWorkingDirectoryPath>>
               /\ config.gitWorkingDirectoryPath = "tmp"
          ELSE /\ temporaryFolders = <<>>
               /\ config.gitWorkingDirectoryPath = Undefined

\* A CI run and its cleanup step, resolved.
C20_Witness ==
    /\ pc = "done"
    /\ ~ config.interactive
    /\ \E i \in Issued("runCleanLocalFoldersStep") : ops[i].ok

====
